---- MODULE Spec2Model ----
(***************************************************************************)
(* Model of package pgtools (pgtools.go): the LRU cache behind Fields, the *)
(* column resolver fields with its index-path ordering, and the callers    *)
(* that run Fields concurrently and keep the slices it returns; and of the *)
(* contract of package sqltest that its tests (sqltest_test.go) exercise.  *)
(***************************************************************************)
EXTENDS Integers, Sequences, FiniteSets, TLC

(* ------------------------------ bounds -------------------------------- *)

\* Number of concurrent callers of Fields.
NumProcs == 2
\* Number of distinct Go types the callers pass.
NumTypes == 3
\* lru.cap of the modelled cache (the singleton is built with cap: 1000).
Cap == 2
\* Index paths handed to the resolver on its own: field indices 0..MaxIndex,
\* nesting depth 1..MaxDepth, at most MaxColumns columns in a map.
MaxIndex == 1
MaxDepth == 2
MaxColumns == 3

\* Test-database harness: number of migration files under Options.Path, and
\* the deepest nesting of sub-tests below a top-level test.
NumMigrations == 2
MaxSubtests == 2

Procs == 1..NumProcs
Types == 1..NumTypes

\* A nil interface value, a nil slice, a nil *list.Element, no type.
Nil == 0

\* Values passed to Fields: nil, a value of type t, or a pointer to one.
NilValue == [kind |-> "nil", t |-> Nil]
Values == {NilValue} \cup [kind : {"value", "ptr"}, t : Types]

\* Addresses of list elements and of backing arrays. The allocator hands out,
\* for an object made for type t, the first free address among
\* t, t + NumTypes, t + 2 * NumTypes, ...
Addrs == 1..(NumTypes * (NumProcs + 1))

VARIABLES
  cap,        \* lru.cap
  mu,         \* lru.mu: the caller holding it, or 0
  m,          \* lru.m: type -> element (Nil: no such key)
  l,          \* lru.l: the elements, front first
  elemValue,  \* Element.Value of each allocated element: field{t, v}
  arrays,     \* backing arrays of the []string slices; <<>> when not allocated
  pc,         \* each caller's position in Fields
  rv,         \* local rv
  cache,      \* local cache (the element found by the lookup)
  oldest,     \* local oldest
  columns,    \* local columns (a slice: its backing array, or Nil)
  pushed,     \* the element PushFront returned, before it is stored in m
  ret,        \* the slice the return statement has evaluated
  resolved,   \* whether the call in progress has run fields(rv)
  pre,        \* the cache as the lock holder found it: [l, m, elemValue]
  recency,    \* every type touched by a finished call, latest touch first
  arg,        \* parameter v of each call in progress (kept only under SpecPtr)
  made,       \* per type, the form of v in the call that made its entry and
              \* the slice that call returned (kept only under SpecPtr)
  colmap,     \* resolver on its own: the column-to-index-path map
  phase,      \* resolver on its own: "input", then "sorted"; else "cache"
  out,        \* resolver on its own: the sequence fields returned
  expr,       \* resolver on its own: the string Wildcard returned
  migration,  \* harness: the Migration handle (whether made by New, its Options)
  test,       \* harness: the running test's identifier, one name per level
  db,         \* harness: the database Setup works on: [exists, marker]
  outcome,    \* harness: how Setup ended: [kind, msg, database]
  testName    \* harness: what SQLTestName returned

cacheVars == <<cap, mu, m, l, elemValue, arrays>>
callVars == <<pc, rv, cache, oldest, columns, pushed, ret, resolved>>
formVars == <<arg, made>>
ghostVars == <<pre, recency, formVars>>
resolverVars == <<colmap, phase, out, expr>>
harnessVars == <<migration, test, db, outcome, testName>>
\* Everything outside the cache and its callers.
besideVars == <<resolverVars, harnessVars>>
vars == <<cacheVars, callVars, ghostVars, resolverVars, harnessVars>>

(* ------------------------- container/list, slices --------------------- *)

RemoveElem(s, e) == SelectSeq(s, LAMBDA x : x # e)

InList(s, e) == \E i \in 1..Len(s) : s[i] = e

\* list.MoveToFront: nothing happens when e is not in the list.
MoveToFront(s, e) == IF InList(s, e) THEN <<e>> \o RemoveElem(s, e) ELSE s

\* Mutation of Back: the front of the list, as list.Front would give.
Front(s) == IF Len(s) = 0 THEN Nil ELSE s[1]

\* list.Back
Back(s) == IF Len(s) = 0 THEN Nil ELSE s[Len(s)]

\* The strings a slice holds.
SliceContents(a) == IF a = Nil THEN <<>> ELSE arrays[a]

(* ------------------------------ fields -------------------------------- *)

\* The comparison closure handed to sort.SliceStable: whether the column with
\* index path a goes before the column with index path b.
RECURSIVE less(_, _)
less(a, b) ==
  IF Len(a) = 0 THEN FALSE
  ELSE IF Len(b) = 0 THEN TRUE
  ELSE IF a[1] < b[1] THEN TRUE
  ELSE IF a[1] > b[1] THEN FALSE
  ELSE less(Tail(a), Tail(b))

Swap(s, i, j) == [s EXCEPT ![i] = s[j], ![j] = s[i]]

\* The inner loop of sort's insertionSort: the element at j moves towards the
\* front while it is less than the one before it.
RECURSIVE SiftLeft(_, _)
SiftLeft(cs, j) ==
  IF j > 1 /\ less(cs[j].indices, cs[j - 1].indices)
  THEN SiftLeft(Swap(cs, j, j - 1), j - 1)
  ELSE cs

RECURSIVE InsertionSort(_, _)
InsertionSort(cs, i) ==
  IF i > Len(cs) THEN cs ELSE InsertionSort(SiftLeft(cs, i), i + 1)

\* Mutation of SliceStable: the columns stay in the order of the range.
NoSort(cs) == cs

\* sort.SliceStable on fewer than 20 elements is one insertion sort.
SliceStable(cs) == InsertionSort(cs, 2)

\* The orders in which ranging over a Go map can yield its entries.
Enumerations(cmap) ==
  {e \in [1..Cardinality(cmap) -> cmap] :
     \A i, j \in 1..Cardinality(cmap) : i # j => e[i] # e[j]}

\* fields, given the order cs in which the range over the map appended the
\* columns: sort by index path, keep the names.
fields(cs) ==
  LET sorted == SliceStable(cs)
  IN  [i \in 1..Len(sorted) |-> sorted[i].name]

\* A column: its name, as the dot-separated parts (<<"address", "city">> is
\* "address.city"), and its index path.
Column(n, ix) == [name |-> n, indices |-> ix]

\* structref.GetColumnToFieldIndexMap for the types of the model: type 3 is
\* not a struct and has no columns, the others are structs.
GetColumnToFieldIndexMap(t) ==
  CASE t = 1 -> {Column(<<"id">>, <<0>>), Column(<<"name">>, <<1>>)}
    [] t = 2 -> {Column(<<"address", "city">>, <<1, 0>>), Column(<<"id">>, <<0>>)}
    [] t = 3 -> {}
    [] t = 4 -> {Column(<<"b">>, <<0>>), Column(<<"a">>, <<1>>)}
    [] OTHER -> {Column(<<"k">>, <<0>>)}

(* ------------------------------ Wildcard ------------------------------ *)

\* A column name as the string it is: its parts with "." between them.
RECURSIVE Dotted(_)
Dotted(name) ==
  IF Len(name) <= 1 THEN name ELSE <<name[1], ".">> \o Dotted(Tail(name))

\* strings.ContainsRune(s, '.') (line 57).
ContainsDot(s) == \E i \in 1..Len(s) : s[i] = "."

\* n of lines 41-44: one per separating comma plus the lengths of the names.
RECURSIVE TotalLen(_)
TotalLen(elems) ==
  IF Len(elems) = 0 THEN 0 ELSE Len(elems[1]) + TotalLen(Tail(elems))

GrowCount(elems) == 1 * (Len(elems) - 1) + TotalLen(elems)

\* Mutation of WriteItems: no alias is written for a name with a dot.
RECURSIVE WriteItemsNoAlias(_, _, _)
WriteItemsNoAlias(b, elems, n) ==
  IF n > Len(elems) THEN b
  ELSE LET s == elems[n]
           b1 == IF n # 1 THEN b \o <<",">> ELSE b
       IN  WriteItemsNoAlias(b1 \o <<"\"">> \o s \o <<"\"">>, elems, n + 1)

\* The loop of lines 48-62, from element n on, writing to the builder b.
RECURSIVE WriteItems(_, _, _)
WriteItems(b, elems, n) ==
  IF n > Len(elems) THEN b
  ELSE LET s == elems[n]
           b1 == IF n # 1 THEN b \o <<",">> ELSE b
           b2 == b1 \o <<"\"">> \o s \o <<"\"">>
           b3 == IF ContainsDot(s) THEN b2 \o <<" as \"">> \o s \o <<"\"">> ELSE b2
       IN  WriteItems(b3, elems, n + 1)

\* Lines 41-63: b.Grow(n) panics on a negative n; then the loop.
Build(elems) ==
  IF GrowCount(elems) < 0
  THEN <<"panic: strings.Builder.Grow: negative count">>
  ELSE WriteItems(<<>>, elems, 1)

\* Mutation of Wildcard: the check for no columns is missing.
WildcardNoGuard(elems) == Build(elems)

\* Wildcard on the columns Fields returned (lines 36-63).
Wildcard(elems) == IF Len(elems) = 0 THEN <<>> ELSE Build(elems)

(* --------------------------- memory management ------------------------ *)

NoField == [t |-> Nil, v |-> Nil]

\* The elements still referenced from the list, the map or a local.
LiveElems(l2, m2, cache2, oldest2, pushed2) ==
  ({l2[i] : i \in 1..Len(l2)} \cup {m2[t] : t \in Types}
    \cup {cache2[p] : p \in Procs} \cup {oldest2[p] : p \in Procs}
    \cup {pushed2[p] : p \in Procs}) \ {Nil}

\* The backing arrays still referenced from a live element or a local.
LiveArrays(ev2, live, columns2, ret2) ==
  ({ev2[e].v : e \in live} \cup {columns2[p] : p \in Procs}
    \cup {ret2[p] : p \in Procs}) \ {Nil}

\* What the garbage collector leaves of the elements and arrays.
CollectElems(ev2, live) ==
  [e \in Addrs |-> IF e \in live THEN ev2[e] ELSE NoField]

CollectArrays(ar2, liveArr) ==
  [a \in Addrs |-> IF a \in liveArr THEN ar2[a] ELSE <<>>]

\* The first free address for an object made for type t.
FirstFree(t, used) ==
  LET free == {a \in Addrs : a % NumTypes = t % NumTypes /\ a \notin used}
  IN  CHOOSE a \in free : \A b \in free : a <= b

NewElem(t) == FirstFree(t, LiveElems(l, m, cache, oldest, pushed))

NewArray(t) ==
  FirstFree(t, LiveArrays(elemValue, LiveElems(l, m, cache, oldest, pushed),
                          columns, ret))

\* reflect.TypeOf(v): the struct type and the number of pointer levels on it.
TypeOf(v) == [base |-> v.t, ptrs |-> IF v.kind = "ptr" THEN 1 ELSE 0]

\* reflect.Type.Elem() of a pointer type: one pointer level fewer.
Elem(ty) == [ty EXCEPT !.ptrs = @ - 1]

\* The reflect.Type values as map keys: t for the struct type t, t + NumTypes
\* for the pointer to it.
TypeId(ty) == ty.base + NumTypes * ty.ptrs

\* Mutation of TypeKey: a pointer is keyed by its own type.
TypeKeyKeepsPointer(v) == TypeId(TypeOf(v))

\* The type a call is keyed by (lines 92-97): for a pointer,
\* reflect.TypeOf(v).Elem(); otherwise the type of the value itself.
TypeKey(v) ==
  LET ty == TypeOf(v)
  IN  IF ty.ptrs > 0 THEN TypeId(Elem(ty)) ELSE TypeId(ty)

\* No entry made for a type.
NoMade == [form |-> "none", slice |-> Nil]

(* --------------------------- package sqltest -------------------------- *)

\* The schema_version marker of a database that has none.
NoMarker == -1

\* A database the server does not have, and one just created.
AbsentDB == [exists |-> FALSE, marker |-> NoMarker]
EmptyDB == [exists |-> TRUE, marker |-> NoMarker]

\* &sqltest.Migration{}: not made by New, every option at its zero value.
ZeroMigration ==
  [initialized |-> FALSE, Force |-> FALSE, UseExisting |-> FALSE,
   pathExists |-> FALSE, TemporaryDatabasePrefix |-> <<>>]

\* Setup has not ended yet.
NoOutcome == [kind |-> "none", msg |-> <<>>, database |-> <<>>]

\* The database of the connection string, which UseExisting works on.
ConnDatabase == <<"postgres">>

\* strings.ToLower on the characters test names are made of here.
Lower(c) ==
  CASE c = "T" -> "t"
    [] c = "A" -> "a"
    [] c = "B" -> "b"
    [] OTHER -> c

\* testing.T.Name(): the names of the levels with "/" between them.
RECURSIVE TName(_)
TName(levels) ==
  IF Len(levels) = 1 THEN levels[1]
  ELSE levels[1] \o <<"/">> \o TName(Tail(levels))

\* Mutation of SQLTestName: the "/" between levels is kept.
SQLTestNameKeepsSlash(levels) ==
  LET n == TName(levels) IN [i \in 1..Len(n) |-> Lower(n[i])]

\* SQLTestName: the test's name in lower case with "_" for each "/".
SQLTestName(levels) ==
  LET n == TName(levels)
  IN  [i \in 1..Len(n) |-> IF n[i] = "/" THEN "_" ELSE Lower(n[i])]

\* Messages of Setup.
PanicUninitialized == <<"migration must be initialized with sqltest.New()">>
CannotLoadMigrations ==
  <<"cannot load migrations: open ", "path", ": no such file or directory">>
DatabaseIsDirty ==
  <<"database is dirty, please fix \"schema_version\" table manually or try -force">>
CannotCreateDatabase(database) ==
  <<"cannot create database: ERROR: database \"">> \o database \o <<"\" already exists">>

\* Mutation of DirtyMarker: any marker passes.
DirtyMarkerIgnored(d) == FALSE

\* A persisted schema_version that is not the number of migration files.
DirtyMarker(d) == d.marker # NoMarker /\ d.marker # NumMigrations

\* Mutation of MustCreate: an existing database is taken over.
MustCreateUnlessThere(mg, d) == ~mg.UseExisting /\ ~d.exists

\* Setup creates the temporary database unless told to use the existing one.
MustCreate(mg, d) == ~mg.UseExisting

\* Mutation of Usable: a zero-value handle is accepted.
UsableAlways(mg) == TRUE

\* Setup works only on a handle made by New.
Usable(mg) == mg.initialized

\* The harness state of the behaviours that do not use the harness.
InitHarnessUnused ==
  /\ migration = ZeroMigration
  /\ test = <<>>
  /\ db = AbsentDB
  /\ outcome = NoOutcome
  /\ testName = <<>>

(* -------------------------------- Init -------------------------------- *)

NoPre ==
  [l |-> <<>>, m |-> [t \in Types |-> Nil], elemValue |-> [e \in Addrs |-> NoField]]

\* wildcardsCache as constructed (lines 75-80): an empty map and list.
InitCache ==
  /\ cap = Cap
  /\ mu = 0
  /\ m = [t \in Types |-> Nil]
  /\ l = <<>>
  /\ elemValue = [e \in Addrs |-> NoField]
  /\ arrays = [a \in Addrs |-> <<>>]

InitCalls ==
  /\ pc = [p \in Procs |-> "idle"]
  /\ rv = [p \in Procs |-> Nil]
  /\ cache = [p \in Procs |-> Nil]
  /\ oldest = [p \in Procs |-> Nil]
  /\ columns = [p \in Procs |-> Nil]
  /\ pushed = [p \in Procs |-> Nil]
  /\ ret = [p \in Procs |-> Nil]
  /\ resolved = [p \in Procs |-> FALSE]
  /\ pre = NoPre
  /\ recency = <<>>
  /\ arg = [p \in Procs |-> NilValue]
  /\ made = [t \in Types |-> NoMade]

Init ==
  /\ InitCache
  /\ InitCalls
  /\ colmap = {}
  /\ phase = "cache"
  /\ out = <<>>
  /\ expr = <<>>
  /\ InitHarnessUnused

(* ------------------------------- Fields ------------------------------- *)

\* Fields is entered with v: nil returns nil at once (lines 89-91); otherwise
\* rv is computed (lines 92-97) and the caller goes on to take the lock.
Call(p, v) ==
  /\ pc[p] = "idle"
  /\ IF v = NilValue
     THEN UNCHANGED <<rv, pc, arg>>
     ELSE /\ rv' = [rv EXCEPT ![p] = TypeKey(v)]
          /\ pc' = [pc EXCEPT ![p] = "lock"]
          /\ arg' = IF phase = "forms" THEN [arg EXCEPT ![p] = v] ELSE arg
  /\ UNCHANGED <<cacheVars, pre, recency, made, besideVars>>
  /\ UNCHANGED <<cache, oldest, columns, pushed, ret, resolved>>

\* Mutation of Lock: the caller goes on without waiting for the lock.
LockNoWait(p) ==
  /\ pc[p] = "lock"
  /\ mu' = p
  /\ pc' = [pc EXCEPT ![p] = "lookup"]
  /\ pre' = [l |-> l, m |-> m, elemValue |-> elemValue]
  /\ UNCHANGED <<cap, m, l, elemValue, arrays, recency, formVars>>
  /\ UNCHANGED <<rv, cache, oldest, columns, pushed, ret, resolved>>
  /\ UNCHANGED besideVars

\* wildcardsCache.mu.Lock() (line 98): blocks while another caller holds mu.
Lock(p) ==
  /\ pc[p] = "lock"
  /\ mu = 0
  /\ mu' = p
  /\ pc' = [pc EXCEPT ![p] = "lookup"]
  /\ pre' = [l |-> l, m |-> m, elemValue |-> elemValue]
  /\ UNCHANGED <<cap, m, l, elemValue, arrays, recency, formVars>>
  /\ UNCHANGED <<rv, cache, oldest, columns, pushed, ret, resolved>>
  /\ UNCHANGED besideVars

\* Mutation of Lookup: the lock is given up when the type is not found, so
\* the rest of the miss runs outside the critical section.
LookupUnlocksOnMiss(p) ==
  /\ pc[p] = "lookup"
  /\ IF m[rv[p]] # Nil
     THEN /\ cache' = [cache EXCEPT ![p] = m[rv[p]]]
          /\ pc' = [pc EXCEPT ![p] = "hit"]
          /\ mu' = mu
     ELSE /\ cache' = cache
          /\ pc' = [pc EXCEPT ![p] = "checkcap"]
          /\ mu' = 0
  /\ UNCHANGED <<cap, m, l, elemValue, arrays>>
  /\ UNCHANGED <<ghostVars, besideVars>>
  /\ UNCHANGED <<rv, oldest, columns, pushed, ret, resolved>>

\* cache, ok := wildcardsCache.m[rv] (line 107).
Lookup(p) ==
  /\ pc[p] = "lookup"
  /\ IF m[rv[p]] # Nil
     THEN /\ cache' = [cache EXCEPT ![p] = m[rv[p]]]
          /\ pc' = [pc EXCEPT ![p] = "hit"]
     ELSE /\ cache' = cache
          /\ pc' = [pc EXCEPT ![p] = "checkcap"]
  /\ UNCHANGED <<cacheVars, ghostVars, besideVars>>
  /\ UNCHANGED <<rv, oldest, columns, pushed, ret, resolved>>

\* Mutation of Hit: the slice is returned but the element is not promoted.
HitNoPromote(p) ==
  /\ pc[p] = "hit"
  /\ ret' = [ret EXCEPT ![p] = elemValue[cache[p]].v]
  /\ pc' = [pc EXCEPT ![p] = "unlock"]
  /\ UNCHANGED <<cap, mu, m, l, elemValue, arrays>>
  /\ UNCHANGED <<rv, cache, oldest, columns, pushed, resolved>>
  /\ UNCHANGED <<ghostVars, besideVars>>

\* The hit branch (lines 108-109): promote the element, return its slice.
Hit(p) ==
  /\ pc[p] = "hit"
  /\ l' = MoveToFront(l, cache[p])
  /\ ret' = [ret EXCEPT ![p] = elemValue[cache[p]].v]
  /\ pc' = [pc EXCEPT ![p] = "unlock"]
  /\ UNCHANGED <<cap, mu, m, elemValue, arrays>>
  /\ UNCHANGED <<rv, cache, oldest, columns, pushed, resolved>>
  /\ UNCHANGED <<ghostVars, besideVars>>

\* Mutation of CheckCap: the comparison is with cap + 1.
CheckCapOffByOne(p) ==
  /\ pc[p] = "checkcap"
  /\ IF Len(l) = cap + 1
     THEN /\ oldest' = [oldest EXCEPT ![p] = Back(l)]
          /\ pc' = [pc EXCEPT ![p] = "remove"]
     ELSE /\ oldest' = oldest
          /\ pc' = [pc EXCEPT ![p] = "resolve"]
  /\ UNCHANGED <<cacheVars, ghostVars, besideVars>>
  /\ UNCHANGED <<rv, cache, columns, pushed, ret, resolved>>

\* Mutation of CheckCap: the oldest entry goes on every miss that finds any.
CheckCapEarly(p) ==
  /\ pc[p] = "checkcap"
  /\ IF Len(l) >= 1
     THEN /\ oldest' = [oldest EXCEPT ![p] = Back(l)]
          /\ pc' = [pc EXCEPT ![p] = "remove"]
     ELSE /\ oldest' = oldest
          /\ pc' = [pc EXCEPT ![p] = "resolve"]
  /\ UNCHANGED <<cacheVars, ghostVars, besideVars>>
  /\ UNCHANGED <<rv, cache, columns, pushed, ret, resolved>>

\* if wildcardsCache.l.Len() == wildcardsCache.cap { oldest := l.Back() ...
\* (lines 113-114).
CheckCap(p) ==
  /\ pc[p] = "checkcap"
  /\ IF Len(l) = cap
     THEN /\ oldest' = [oldest EXCEPT ![p] = Back(l)]
          /\ pc' = [pc EXCEPT ![p] = "remove"]
     ELSE /\ oldest' = oldest
          /\ pc' = [pc EXCEPT ![p] = "resolve"]
  /\ UNCHANGED <<cacheVars, ghostVars, besideVars>>
  /\ UNCHANGED <<rv, cache, columns, pushed, ret, resolved>>

\* wildcardsCache.l.Remove(oldest) (line 115).
Remove(p) ==
  /\ pc[p] = "remove"
  /\ l' = RemoveElem(l, oldest[p])
  /\ pc' = [pc EXCEPT ![p] = "delete"]
  /\ UNCHANGED <<cap, mu, m, elemValue, arrays>>
  /\ UNCHANGED <<rv, cache, oldest, columns, pushed, ret, resolved>>
  /\ UNCHANGED <<ghostVars, besideVars>>

\* Mutation of Delete: the key stays in the map.
DeleteSkipped(p) ==
  /\ pc[p] = "delete"
  /\ pc' = [pc EXCEPT ![p] = "resolve"]
  /\ UNCHANGED <<cap, mu, m, l, elemValue, arrays>>
  /\ UNCHANGED <<rv, cache, oldest, columns, pushed, ret, resolved>>
  /\ UNCHANGED <<ghostVars, besideVars>>

\* delete(wildcardsCache.m, oldest.Value.(field).t) (line 116).
Delete(p) ==
  /\ pc[p] = "delete"
  /\ m' = [m EXCEPT ![elemValue[oldest[p]].t] = Nil]
  /\ pc' = [pc EXCEPT ![p] = "resolve"]
  /\ UNCHANGED <<cap, mu, l, elemValue, arrays>>
  /\ UNCHANGED <<rv, cache, oldest, columns, pushed, ret, resolved>>
  /\ made' = [made EXCEPT ![elemValue[oldest[p]].t] = NoMade]
  /\ UNCHANGED <<pre, recency, arg, besideVars>>

\* columns := fields(rv) (line 120): the map is ranged over in some order and
\* the sorted names are appended to a fresh slice (nil when there are none).
Resolve(p) ==
  /\ pc[p] = "resolve"
  /\ \E cs \in Enumerations(GetColumnToFieldIndexMap(rv[p])) :
       LET names == fields(cs)
           a == NewArray(rv[p])
       IN  IF Len(names) = 0
           THEN /\ columns' = [columns EXCEPT ![p] = Nil]
                /\ arrays' = arrays
           ELSE /\ columns' = [columns EXCEPT ![p] = a]
                /\ arrays' = [arrays EXCEPT ![a] = names]
  /\ resolved' = [resolved EXCEPT ![p] = TRUE]
  /\ pc' = [pc EXCEPT ![p] = "pushfront"]
  /\ UNCHANGED <<cap, mu, m, l, elemValue>>
  /\ UNCHANGED <<rv, cache, oldest, pushed, ret>>
  /\ UNCHANGED <<ghostVars, besideVars>>

\* wildcardsCache.l.PushFront(field{t: rv, v: columns}) (lines 121-124).
PushFront(p) ==
  /\ pc[p] = "pushfront"
  /\ LET e == NewElem(rv[p])
     IN  /\ elemValue' = [elemValue EXCEPT ![e] = [t |-> rv[p], v |-> columns[p]]]
         /\ l' = <<e>> \o l
         /\ pushed' = [pushed EXCEPT ![p] = e]
  /\ pc' = [pc EXCEPT ![p] = "store"]
  /\ UNCHANGED <<cap, mu, m, arrays>>
  /\ UNCHANGED <<rv, cache, oldest, columns, ret, resolved>>
  /\ UNCHANGED <<ghostVars, besideVars>>

\* wildcardsCache.m[rv] = <the pushed element>; return columns (lines 121, 125).
Store(p) ==
  /\ pc[p] = "store"
  /\ m' = [m EXCEPT ![rv[p]] = pushed[p]]
  /\ ret' = [ret EXCEPT ![p] = columns[p]]
  /\ pc' = [pc EXCEPT ![p] = "unlock"]
  /\ UNCHANGED <<cap, mu, l, elemValue, arrays>>
  /\ UNCHANGED <<rv, cache, oldest, columns, pushed, resolved>>
  /\ made' = IF phase = "forms"
             THEN [made EXCEPT ![arg[p].t] = [form |-> arg[p].kind, slice |-> columns[p]]]
             ELSE made
  /\ UNCHANGED <<pre, recency, arg, besideVars>>

\* The deferred wildcardsCache.mu.Unlock() (line 99) and the return: the
\* caller has its slice, the locals go out of scope, and what nothing in the
\* cache refers to any more is garbage.
Unlock(p) ==
  /\ pc[p] = "unlock"
  /\ mu' = 0
  /\ pc' = [pc EXCEPT ![p] = "idle"]
  /\ rv' = [rv EXCEPT ![p] = Nil]
  /\ cache' = [cache EXCEPT ![p] = Nil]
  /\ oldest' = [oldest EXCEPT ![p] = Nil]
  /\ columns' = [columns EXCEPT ![p] = Nil]
  /\ pushed' = [pushed EXCEPT ![p] = Nil]
  /\ ret' = [ret EXCEPT ![p] = Nil]
  /\ resolved' = [resolved EXCEPT ![p] = FALSE]
  /\ LET live == LiveElems(l, m, cache', oldest', pushed')
     IN  /\ elemValue' = CollectElems(elemValue, live)
         /\ arrays' = CollectArrays(arrays, LiveArrays(elemValue', live, columns', ret'))
  /\ pre' = NoPre
  /\ arg' = [arg EXCEPT ![p] = NilValue]
  /\ recency' = <<rv[p]>> \o RemoveElem(recency, rv[p])
  /\ UNCHANGED <<cap, m, l, made>>
  /\ UNCHANGED besideVars

\* Mutation of ResolveAbort: the panic leaves Fields with the lock still held.
ResolveAbortKeepsLock(p) ==
  /\ pc[p] = "resolve"
  /\ pc' = [pc EXCEPT ![p] = "idle"]
  /\ rv' = [rv EXCEPT ![p] = Nil]
  /\ cache' = [cache EXCEPT ![p] = Nil]
  /\ oldest' = [oldest EXCEPT ![p] = Nil]
  /\ LET live == LiveElems(l, m, cache', oldest', pushed)
     IN  /\ elemValue' = CollectElems(elemValue, live)
         /\ arrays' = CollectArrays(arrays, LiveArrays(elemValue', live, columns, ret))
  /\ pre' = NoPre
  /\ arg' = [arg EXCEPT ![p] = NilValue]
  /\ UNCHANGED <<cap, mu, m, l, recency, made>>
  /\ UNCHANGED <<columns, pushed, ret, resolved>>
  /\ UNCHANGED besideVars

\* fields(rv) (line 120) panics: the call is left through the deferred
\* wildcardsCache.mu.Unlock() (line 99) with nothing inserted.
ResolveAbort(p) ==
  /\ pc[p] = "resolve"
  /\ mu' = 0
  /\ pc' = [pc EXCEPT ![p] = "idle"]
  /\ rv' = [rv EXCEPT ![p] = Nil]
  /\ cache' = [cache EXCEPT ![p] = Nil]
  /\ oldest' = [oldest EXCEPT ![p] = Nil]
  /\ LET live == LiveElems(l, m, cache', oldest', pushed)
     IN  /\ elemValue' = CollectElems(elemValue, live)
         /\ arrays' = CollectArrays(arrays, LiveArrays(elemValue', live, columns, ret))
  /\ pre' = NoPre
  /\ arg' = [arg EXCEPT ![p] = NilValue]
  /\ UNCHANGED <<cap, m, l, recency, made>>
  /\ UNCHANGED <<columns, pushed, ret, resolved>>
  /\ UNCHANGED besideVars

(* ------------------------------ callers ------------------------------- *)

\* A string a caller may store that is not a column name of any type.
Scribble == <<"x">>

\* The slices callers hold: every slice of a cache entry has been returned by
\* the call that made the entry, once that call is over.
Escaped ==
  {elemValue[l[i]].v : i \in {j \in 1..Len(l) : \A p \in Procs : pushed[p] # l[j]}}
    \ {Nil}

\* A caller assigns to the first element of a slice Fields gave it
\* (cols := pgtools.Fields(v); cols[0] = ...).
CallerWrite(a) ==
  /\ a \in Escaped
  /\ arrays' = [arrays EXCEPT ![a][1] = Scribble]
  /\ UNCHANGED <<cap, mu, m, l, elemValue>>
  /\ UNCHANGED <<callVars, ghostVars, besideVars>>

Next ==
  \/ \E p \in Procs :
       \/ \E v \in Values : Call(p, v)
       \/ Lock(p)
       \/ Lookup(p)
       \/ Hit(p)
       \/ CheckCap(p)
       \/ Remove(p)
       \/ Delete(p)
       \/ Resolve(p)
       \/ PushFront(p)
       \/ Store(p)
       \/ Unlock(p)
  \/ \E a \in Addrs : CallerWrite(a)

Spec == Init /\ [][Next]_vars

(* --------------------- calls under fair scheduling -------------------- *)

\* The steps of a call between Lock returning and the return.
Step(p) ==
  \/ Lookup(p) \/ Hit(p) \/ CheckCap(p) \/ Remove(p) \/ Delete(p)
  \/ Resolve(p) \/ ResolveAbort(p) \/ PushFront(p) \/ Store(p) \/ Unlock(p)

NextLive ==
  \E p \in Procs :
    \/ \E v \in Values : Call(p, v)
    \/ Lock(p)
    \/ Step(p)

\* Every goroutine that can take a step is scheduled in the end, and
\* sync.Mutex hands the lock to a goroutine that keeps waiting for it
\* (starvation mode), so Lock is strongly fair.
Fairness ==
  \A p \in Procs : WF_vars(Step(p)) /\ SF_vars(Lock(p))

SpecLive == Init /\ [][NextLive]_vars /\ Fairness

(* ------------------ one caller, the forms of v recorded --------------- *)

\* The caller of the sequential calls.
Caller == 1

InitPtr ==
  /\ InitCache
  /\ InitCalls
  /\ colmap = {}
  /\ phase = "forms"
  /\ out = <<>>
  /\ expr = <<>>
  /\ InitHarnessUnused

NextPtr ==
  \/ \E v \in Values : Call(Caller, v)
  \/ Lock(Caller) \/ Lookup(Caller) \/ Hit(Caller) \/ CheckCap(Caller)
  \/ Remove(Caller) \/ Delete(Caller) \/ Resolve(Caller) \/ PushFront(Caller)
  \/ Store(Caller) \/ Unlock(Caller)

SpecPtr == InitPtr /\ [][NextPtr]_vars

(* ------------------------- the resolver on its own -------------------- *)

\* The index paths of the bounds.
Paths == UNION {[1..n -> 0..MaxIndex] : n \in 1..MaxDepth}

\* Sets of at most k index paths.
RECURSIVE PathSets(_)
PathSets(k) ==
  IF k = 0 THEN {{}}
  ELSE LET smaller == PathSets(k - 1)
       IN  smaller \cup {s \cup {x} : s \in smaller, x \in Paths}

\* Field names, in alphabetical order.
Letters == <<"a", "b", "c", "d", "e", "f">>

\* The name of field i of a struct whose fields are declared in alphabetical
\* order ("asc") or in reverse alphabetical order ("desc").
FieldName(i, naming) ==
  IF naming = "asc" THEN Letters[i + 1] ELSE Letters[Len(Letters) - i]

\* The column at index path ix: the names of the fields along the path.
ColumnAt(ix, naming) ==
  Column([k \in 1..Len(ix) |-> FieldName(ix[k], naming)], ix)

\* Inputs of fields: a map with pairwise distinct index paths.
InitFields ==
  /\ InitCache
  /\ InitCalls
  /\ phase = "input"
  /\ out = <<>>
  /\ expr = <<>>
  /\ InitHarnessUnused
  /\ \E ps \in PathSets(MaxColumns), naming \in {"asc", "desc"} :
       colmap = {ColumnAt(ix, naming) : ix \in ps}

\* fields(rv) (lines 128-167) on the map: ranged over in some order, sorted.
ResolveAlone ==
  /\ phase = "input"
  /\ \E cs \in Enumerations(colmap) : out' = fields(cs)
  /\ phase' = "sorted"
  /\ UNCHANGED <<colmap, expr, cacheVars, callVars, ghostVars, harnessVars>>

\* Wildcard (lines 35-64) on the columns fields returned.
WildcardAlone ==
  /\ phase = "sorted"
  /\ expr' = Wildcard([i \in 1..Len(out) |-> Dotted(out[i])])
  /\ phase' = "formatted"
  /\ UNCHANGED <<colmap, out, cacheVars, callVars, ghostVars, harnessVars>>

\* Wildcard(nil): Fields returns nil at once (lines 89-91), Wildcard formats it.
WildcardOfNil ==
  /\ phase = "input"
  /\ colmap = {}
  /\ out' = <<>>
  /\ expr' = Wildcard(out')
  /\ phase' = "nil"
  /\ UNCHANGED <<colmap, cacheVars, callVars, ghostVars, harnessVars>>

NextFields == ResolveAlone \/ WildcardAlone \/ WildcardOfNil

SpecFields == InitFields /\ [][NextFields]_vars

(* ------------------------ the harness on its own ---------------------- *)

TopNames == {<<"T", "A">>, <<"T", "b">>}
SubNames == {<<"f">>, <<"B">>}
Prefixes == {<<>>, <<"p", "_">>}

\* Test identifiers: a top-level test and up to k levels of sub-tests.
RECURSIVE TestIds(_)
TestIds(k) ==
  IF k = 0 THEN {<<top>> : top \in TopNames}
  ELSE TestIds(k - 1) \cup
       {Append(id, sub) : id \in {i \in TestIds(k - 1) : Len(i) = k}, sub \in SubNames}

Migrations ==
  {ZeroMigration} \cup
  [initialized : {TRUE}, Force : BOOLEAN, UseExisting : BOOLEAN,
   pathExists : BOOLEAN, TemporaryDatabasePrefix : Prefixes]

Databases ==
  {AbsentDB} \cup [exists : {TRUE}, marker : {NoMarker} \cup (0..(NumMigrations + 1))]

\* A test about to call Setup or SQLTestName. UseExisting is given a
\* connection to a database that is there.
InitSQLTest ==
  /\ InitCache
  /\ InitCalls
  /\ colmap = {}
  /\ phase = "harness"
  /\ out = <<>>
  /\ expr = <<>>
  /\ migration \in Migrations
  /\ test \in TestIds(MaxSubtests)
  /\ db \in Databases
  /\ migration.UseExisting => db.exists
  /\ outcome = NoOutcome
  /\ testName = <<>>

\* Migration.Setup(ctx, connString), to its return or to the end of the test.
Setup ==
  /\ phase = "harness"
  /\ outcome = NoOutcome
  /\ LET database == IF migration.UseExisting THEN ConnDatabase
                     ELSE migration.TemporaryDatabasePrefix \o SQLTestName(test)
         created == IF MustCreate(migration, db) THEN EmptyDB ELSE db
     IN  IF ~Usable(migration)
         THEN /\ outcome' = [kind |-> "panic", msg |-> PanicUninitialized, database |-> <<>>]
              /\ db' = db
         ELSE IF MustCreate(migration, db) /\ db.exists
         THEN /\ outcome' = [kind |-> "fatal", msg |-> CannotCreateDatabase(database),
                             database |-> <<>>]
              /\ db' = db
         ELSE IF ~migration.pathExists
         THEN /\ outcome' = [kind |-> "fatal", msg |-> CannotLoadMigrations, database |-> <<>>]
              /\ db' = created
         ELSE IF DirtyMarker(created) /\ ~migration.Force
         THEN /\ outcome' = [kind |-> "fatal", msg |-> DatabaseIsDirty, database |-> <<>>]
              /\ db' = created
         ELSE /\ outcome' = [kind |-> "ok", msg |-> <<>>, database |-> database]
              /\ db' = [exists |-> TRUE, marker |-> NumMigrations]
  /\ UNCHANGED <<migration, test, testName, cacheVars, callVars, ghostVars, resolverVars>>

\* sqltest.SQLTestName(t).
CallSQLTestName ==
  /\ phase = "harness"
  /\ testName = <<>>
  /\ testName' = SQLTestName(test)
  /\ UNCHANGED <<migration, test, db, outcome, cacheVars, callVars, ghostVars, resolverVars>>

NextSQLTest == Setup \/ CallSQLTestName

SpecSQLTest == InitSQLTest /\ [][NextSQLTest]_vars

(* ======================= properties of the cache ====================== *)

\* The types held by the elements of a list, front first.
TypesOf(s, ev) == [i \in 1..Len(s) |-> ev[s[i]].t]

Range(s) == {s[i] : i \in 1..Len(s)}

\* The keys of the map.
Keys(mm) == {t \in Types : mm[t] # Nil}

\* The position of x in s.
Pos(s, x) == CHOOSE i \in 1..Len(s) : s[i] = x

\* The caller is between Lock returning and Unlock.
InCriticalSection(p) == pc[p] \notin {"idle", "lock"}

\* The call of p found its type in the cache / did not find it.
IsHit(p) == InCriticalSection(p) /\ pre.m[rv[p]] # Nil
IsMiss(p) == InCriticalSection(p) /\ pre.m[rv[p]] = Nil

\* The map and the list describe the same entries.
Consistent ==
  /\ Keys(m) = Range(TypesOf(l, elemValue))
  /\ \A t \in Keys(m) : InList(l, m[t]) /\ elemValue[m[t]].t = t
  /\ \A i, j \in 1..Len(l) : i # j => l[i] # l[j] /\ elemValue[l[i]].t # elemValue[l[j]].t
  /\ Cardinality(Keys(m)) = Len(l)

\* What a direct call of the resolver returns for type t.
FieldsOf(t) ==
  fields(CHOOSE cs \in Enumerations(GetColumnToFieldIndexMap(t)) : TRUE)

\* C1: a miss on a full cache evicts exactly one entry, the resident one
\* whose latest touch (insertion or hit) is the oldest.
C1_EvictsLeastRecentlyTouched ==
  \A p \in Procs :
    (pc[p] = "unlock" /\ IsMiss(p) /\ Len(pre.l) = cap) =>
      LET before == Range(TypesOf(pre.l, pre.elemValue))
          evicted == before \ Range(TypesOf(l, elemValue))
      IN  /\ Cardinality(evicted) = 1
          /\ \A t \in evicted : \A u \in before \ {t} :
               /\ InList(recency, t) /\ InList(recency, u)
               /\ Pos(recency, t) > Pos(recency, u)

\* A miss on a full cache is over, not the first one, and the entry it
\* evicted was the least recently touched of the resident ones.
C1_Witness ==
  \E p \in Procs :
    /\ pc[p] = "unlock" /\ IsMiss(p) /\ Len(pre.l) = cap
    /\ Len(recency) > cap
    /\ oldest[p] # Nil
    /\ elemValue[oldest[p]].t = recency[cap]
    /\ ~InList(l, oldest[p])

\* C2: whenever the lock is free, the map and the list hold the same entries:
\* same types, each map value the element of its type, no type twice.
C2_MapAndListConsistent == mu = 0 => Consistent

\* The lock is free, the cache is full and an eviction has taken place.
C2_Witness == mu = 0 /\ Len(l) = Cap /\ Len(recency) > Cap /\ Consistent

\* C3: the map and the list never hold more than cap entries, and cap keeps
\* the value it was constructed with.
C3_NeverAboveCapacity ==
  /\ Len(l) <= Cap
  /\ Cardinality(Keys(m)) <= Cap
  /\ cap = Cap

\* A new entry has been pushed onto a cache that was full.
C3_Witness ==
  \E p \in Procs : pc[p] = "store" /\ oldest[p] # Nil /\ Len(l) = Cap

\* C4: whatever Fields returns for a type is what the resolver returns for it.
C4_Transparent ==
  \A p \in Procs : pc[p] = "unlock" => SliceContents(ret[p]) = FieldsOf(rv[p])

\* C5: at most one caller is between Lock and Unlock, the caller that is holds
\* the lock, and what it finds on entry is a consistent map and list.
C5_MutualExclusion ==
  /\ Cardinality({p \in Procs : InCriticalSection(p)}) <= 1
  /\ \A p \in Procs : InCriticalSection(p) => mu = p
  /\ \A p \in Procs : pc[p] = "lookup" => Consistent

\* One caller has removed the oldest element from the list and not yet from
\* the map, while another waits for the lock.
C5_Witness ==
  \E p, q \in Procs : pc[p] = "delete" /\ pc[q] = "lock" /\ ~Consistent

\* C6 (state part): when a hit is over, the entry is at the front, it is its
\* slice that is returned, the resolver has not run, and the map, the other
\* entries' order and every element's value are as the call found them.
C6_HitState ==
  \A p \in Procs :
    (pc[p] = "unlock" /\ IsHit(p)) =>
      /\ ~resolved[p]
      /\ ret[p] = pre.elemValue[pre.m[rv[p]]].v
      /\ l = <<pre.m[rv[p]]>> \o RemoveElem(pre.l, pre.m[rv[p]])
      /\ m = pre.m
      /\ elemValue = pre.elemValue

\* C6 (step part): the steps of a hit leave every backing array as it is.
C6_HitStep ==
  \A p \in Procs : (IsHit(p) /\ pc'[p] # pc[p] /\ pc'[p] # "idle") => arrays' = arrays

\* C6: a hit moves its entry to the front, returns the cached slice without
\* running the resolver, and changes nothing else.
C6_HitFrame == []C6_HitState /\ [][C6_HitStep]_vars

\* A hit on an entry that was not at the front is over.
C6_Witness ==
  \E p \in Procs :
    /\ pc[p] = "unlock" /\ IsHit(p)
    /\ Len(pre.l) >= 2 /\ pre.l[1] # pre.m[rv[p]]

\* C7 (state part): when a miss is over, the new type is at the front; below
\* capacity the others are all still there, at capacity exactly one is gone.
C7_MissState ==
  \A p \in Procs :
    (pc[p] = "unlock" /\ IsMiss(p)) =>
      LET before == TypesOf(pre.l, pre.elemValue)
          after == TypesOf(l, elemValue)
      IN  /\ Len(after) >= 1 /\ after[1] = rv[p]
          /\ Len(before) < cap =>
               /\ Tail(after) = before
               /\ Cardinality(Keys(m)) = Cardinality(Keys(pre.m)) + 1
          /\ Len(before) = cap =>
               /\ Len(after) = cap
               /\ Cardinality(Keys(m)) = cap
               /\ Cardinality(Range(before) \ Range(after)) = 1

\* C7 (step part): a type leaves the list or the map only in the eviction of
\* a miss that found the cache holding cap entries.
C7_MissStep ==
  /\ (Range(TypesOf(l, elemValue)) \ Range(TypesOf(l', elemValue')) # {}) =>
       \E p \in Procs : pc[p] = "remove" /\ pc'[p] = "delete" /\ IsMiss(p)
                          /\ Len(pre.l) = cap
  /\ (Keys(m) \ Keys(m') # {}) =>
       \E p \in Procs : pc[p] = "delete" /\ pc'[p] = "resolve" /\ IsMiss(p)
                          /\ Len(pre.l) = cap

\* C7: a miss inserts at the front and evicts only when the cache held cap
\* entries; nothing else removes an entry.
C7_MissFrame == []C7_MissState /\ [][C7_MissStep]_vars

\* A miss below capacity is over and the cache has grown to cap entries.
C7_Witness ==
  \E p \in Procs :
    /\ pc[p] = "unlock" /\ IsMiss(p)
    /\ Len(pre.l) = cap - 1 /\ Len(l) = cap

\* C8: as long as an entry stays in the cache, the columns stored in it stay
\* the same.
C8_EntryStep ==
  \A e \in Addrs :
    (InList(l, e) /\ InList(l', e)) =>
      (IF elemValue'[e].v = Nil THEN <<>> ELSE arrays'[elemValue'[e].v])
        = SliceContents(elemValue[e].v)

C8_EntriesImmutable == [][C8_EntryStep]_vars

(* ===================== properties of the resolver ===================== *)

StrictPrefix(a, b) == Len(a) < Len(b) /\ \A k \in 1..Len(a) : a[k] = b[k]

\* a and b differ first at position k.
FirstDifference(a, b, k) ==
  /\ k <= Len(a) /\ k <= Len(b)
  /\ a[k] # b[k]
  /\ \A j \in 1..(k - 1) : a[j] = b[j]

\* C9: a column whose index path is a strict prefix of another column's path
\* comes before it in the output of fields.
C9_PrefixFirst ==
  phase = "sorted" =>
    \A c, d \in colmap :
      StrictPrefix(c.indices, d.indices) => Pos(out, c.name) < Pos(out, d.name)

\* C10: the output of fields holds every column once, is the same whatever
\* order the map was ranged over in, and puts a column first when its index is
\* the smaller one at the first position where two paths differ.
C10_DeclarationOrder ==
  phase = "sorted" =>
    /\ Len(out) = Cardinality(colmap)
    /\ Range(out) = {c.name : c \in colmap}
    /\ out = fields(CHOOSE cs \in Enumerations(colmap) : TRUE)
    /\ \A c, d \in colmap :
         (\E k \in 1..MaxDepth :
            FirstDifference(c.indices, d.indices, k) /\ c.indices[k] < d.indices[k])
           => Pos(out, c.name) < Pos(out, d.name)

\* Fields declared in reverse alphabetical order, the second a struct of two:
\* the output is in declaration order, which is not the alphabetical one.
C10_Witness ==
  /\ phase = "sorted"
  /\ colmap = {ColumnAt(<<0>>, "desc"), ColumnAt(<<1, 0>>, "desc"),
               ColumnAt(<<1, 1>>, "desc")}
  /\ out = <<<<"f">>, <<"e", "f">>, <<"e", "e">>>>

(* ====================== properties of Wildcard ======================== *)

\* What the claim calls item(c): c in double quotes, then ` as "c"` when c has
\* a dot.
Item(c) ==
  LET quoted == <<"\"">> \o Dotted(c) \o <<"\"">>
  IN  IF Len(c) > 1 THEN quoted \o <<" as \"">> \o Dotted(c) \o <<"\"">> ELSE quoted

\* The items of cs joined by single commas.
RECURSIVE Joined(_)
Joined(cs) ==
  IF Len(cs) = 1 THEN Item(cs[1])
  ELSE Item(cs[1]) \o <<",">> \o Joined(Tail(cs))

\* C11: for a non-empty column sequence Wildcard returns the items, in the
\* same order, joined by single commas with none leading or trailing.
C11_WildcardFormat ==
  (phase = "formatted" /\ Len(out) > 0) =>
    /\ expr = Joined(out)
    /\ expr[1] = "\"" /\ expr[Len(expr)] = "\""
    /\ Cardinality({i \in 1..Len(expr) : expr[i] = ","}) = Len(out) - 1

\* "f","e.f" as "e.f","e.e" as "e.e" has been returned for [f, e.f, e.e].
C11_Witness ==
  /\ phase = "formatted"
  /\ out = <<<<"f">>, <<"e", "f">>, <<"e", "e">>>>
  /\ expr = <<"\"", "f", "\"", ",",
              "\"", "e", ".", "f", "\"", " as \"", "e", ".", "f", "\"", ",",
              "\"", "e", ".", "e", "\"", " as \"", "e", ".", "e", "\"">>

\* C12: when Fields returns no columns, for nil in particular, Wildcard
\* returns the empty string and does not panic.
C12_EmptyIsEmptyString ==
  (phase \in {"formatted", "nil"} /\ Len(out) = 0) => expr = <<>>

\* Wildcard(nil) has returned the empty string.
C12_Witness == phase = "nil" /\ out = <<>> /\ expr = <<>>

(* ====================== properties of the harness ===================== *)

\* C13: Setup on a handle not made by New ends in a panic with the value
\* "migration must be initialized with sqltest.New()": no connection is
\* returned and the database is neither created nor migrated.
C13_UninitializedPanics ==
  [][(~migration.initialized /\ outcome' # outcome) =>
       /\ outcome'.kind = "panic"
       /\ outcome'.msg = <<"migration must be initialized with sqltest.New()">>
       /\ outcome'.database = <<>>
       /\ db' = db]_vars

\* Setup on a zero-value handle has ended.
C13_Witness == ~migration.initialized /\ outcome.kind = "panic"

C15_DirtyFails ==
  [][(/\ migration.initialized /\ migration.UseExisting /\ ~migration.Force
      /\ migration.pathExists /\ db.marker # NoMarker
      /\ outcome' # outcome) =>
       IF db.marker # NumMigrations
       THEN /\ outcome'.kind = "fatal"
            /\ outcome'.msg =
                 <<"database is dirty, please fix \"schema_version\" table manually or try -force">>
            /\ outcome'.database = <<>>
       ELSE outcome'.kind = "ok" /\ outcome'.database # <<>>]_vars

\* Setup has failed on a database whose version is one above the number of
\* migration files.
C15_Witness ==
  /\ migration.UseExisting /\ ~migration.Force
  /\ db.marker = NumMigrations + 1
  /\ outcome.kind = "fatal" /\ outcome.msg = DatabaseIsDirty

\* The name of one level in lower case.
LowerName(level) == [i \in 1..Len(level) |-> Lower(level[i])]

\* The lower-cased levels joined by "_".
RECURSIVE Flattened(_)
Flattened(levels) ==
  IF Len(levels) = 1 THEN LowerName(levels[1])
  ELSE Flattened(SubSeq(levels, 1, Len(levels) - 1))
         \o <<"_">> \o LowerName(levels[Len(levels)])

\* C16: the database name is the prefix followed by the lower-cased test
\* name with the levels joined by "_": a sub-test's name is its parent's
\* name followed by "_" and its own name in lower case.
C16_NameDerivation ==
  /\ testName # <<>> =>
       /\ testName = Flattened(test)
       /\ Len(test) > 1 =>
            testName = SQLTestName(SubSeq(test, 1, Len(test) - 1))
                     \o <<"_">> \o LowerName(test[Len(test)])
  /\ (outcome.kind = "ok" /\ ~migration.UseExisting) =>
       outcome.database = migration.TemporaryDatabasePrefix \o Flattened(test)

\* TA/f/B has been named ta_f_b and its database, with prefix p_, p_ta_f_b.
C16_Witness ==
  /\ test = <<<<"T", "A">>, <<"f">>, <<"B">>>>
  /\ testName = <<"t", "a", "_", "f", "_", "b">>
  /\ outcome.kind = "ok"
  /\ outcome.database = <<"p", "_", "t", "a", "_", "f", "_", "b">>

(* =================== properties of concurrent calls =================== *)

\* Type t has an entry: a key of the map or the type of an element of the list.
Resident(t) == m[t] # Nil \/ \E i \in 1..Len(l) : elemValue[l[i]].t = t

\* C17: the resolver runs for a type, and an entry for it is inserted, only
\* while the type is not resident; of two callers in flight for the same
\* type at most one has run the resolver, and the one that found the type
\* resident goes the hit way; no type has two entries.
C17_ResolvedOncePerResidency ==
  /\ \A p \in Procs :
       /\ pc[p] \in {"resolve", "pushfront"} => ~Resident(rv[p])
       /\ pc[p] = "hit" => (Resident(rv[p]) /\ ~resolved[p])
       /\ resolved[p] => pc[p] \in {"pushfront", "store", "unlock"}
  /\ \A p, q \in Procs :
       (p # q /\ rv[p] # Nil /\ rv[p] = rv[q]) => ~(resolved[p] /\ resolved[q])
  /\ \A i, j \in 1..Len(l) : i # j => elemValue[l[i]].t # elemValue[l[j]].t

\* Two callers have asked for the same type, not resident: one is about to
\* run the resolver while the other waits for the lock.
C17_Witness ==
  \E p, q \in Procs :
    /\ p # q
    /\ pc[p] = "resolve" /\ pc[q] = "lock"
    /\ rv[p] = rv[q]
    /\ ~Resident(rv[p])

\* C18: under fair scheduling every call of Fields returns (each caller is
\* outside Fields again and again, so a call in progress ends); the lock is held
\* by exactly the caller that is between Lock returning and its return, so
\* it is taken once per call, released on each way out (hit, miss, a panic
\* in the resolver) and never held by a caller that has returned.
C18_EveryCallReturns ==
  /\ \A p \in Procs : []<>(pc[p] = "idle")
  /\ [](\A p \in Procs : (mu = p) <=> InCriticalSection(p))

\* A caller waits for the lock while the caller holding it is at the resolver.
C18_Witness ==
  \E p, q \in Procs :
    /\ p # q
    /\ pc[p] = "lock"
    /\ mu = q /\ pc[q] = "resolve"

(* ======================= properties of the key ======================== *)

\* C19: a call with a value of type T and a call with a pointer to one are
\* keyed by T; once a call with either form has made the entry, and until
\* the entry is evicted, a call with either form is a hit: the resolver is
\* not run, no entry is added, and the slice returned is the one the call
\* that made the entry returned.
C19_SameKeyForPointer ==
  LET p == Caller
      entry == made[arg[p].t]
  IN  pc[p] # "idle" =>
        /\ rv[p] = arg[p].t
        /\ (InCriticalSection(p) /\ ~resolved[p] /\ entry.form # "none") =>
             /\ pc[p] \in {"lookup", "hit", "unlock"}
             /\ m = pre.m /\ Len(l) = Len(pre.l)
             /\ pc[p] = "unlock" => ret[p] = entry.slice

\* A call with a pointer to T has been a hit on the entry that a call with a
\* value of type T made.
C19_Witness ==
  /\ pc[Caller] = "unlock" /\ ~resolved[Caller]
  /\ arg[Caller].kind = "ptr"
  /\ made[arg[Caller].t].form = "value"
  /\ ret[Caller] = made[arg[Caller].t].slice

====
